---- MODULE Spec2Model ----
(***************************************************************************)
(* Model of src/openwrt_luci_rpc/openwrt_luci_rpc.py: the OpenWrtLuciRPC   *)
(* client (login token lifecycle, JSON RPC response classification and the *)
(* device discovery entry point), run against a router whose replies are   *)
(* chosen nondeterministically.                                            *)
(*                                                                         *)
(* Python values are modelled as follows.  A JSON value is a record        *)
(* [kind, s, rows]; Python None and JSON null are the same value NoneVal.  *)
(* A key that is missing from a JSON object has kind "absent".  The        *)
(* instance `self` is a record whose DOMAIN is the set of attributes that  *)
(* have been assigned: reading any other attribute raises AttributeError,  *)
(* and reading a module-level name that is bound nowhere raises NameError. *)
(***************************************************************************)
EXTENDS Integers, Sequences, FiniteSets, TLC

VARIABLES
  client,    \* TRUE iff the caller holds a constructed OpenWrtLuciRPC
  self,      \* the instance: attribute name -> value
  op,        \* the operation invoked last
  offered,   \* the router's reply to the request of that operation
  calls,     \* the _call_json_rpc invocations that operation made
  raised,    \* the exception that operation raised, or "none"
  returned   \* the value that operation returned, or "nothing"

vars == <<client, self, op, offered, calls, raised, returned>>

\* Longest row list the router puts in a discovery result.
MaxRows == 2

----------------------------------------------------------------------------
\* JSON values

NoneVal == [kind |-> "null", s |-> "", rows |-> <<>>]

AbsentVal == [kind |-> "absent", s |-> "", rows |-> <<>>]

StrVal(t) == [kind |-> "str", s |-> t, rows |-> <<>>]

ListVal(rs) == [kind |-> "list", s |-> "", rows |-> rs]

\* The error code luci uses for an unsupported RPC method.
MethodNotFoundCode == -32601

\* The "error" member of a response: missing, null, or {"code", "message"}.
ErrorVals ==
  { [kind |-> "absent", code |-> 0], [kind |-> "null", code |-> 0],
    [kind |-> "obj", code |-> MethodNotFoundCode],
    [kind |-> "obj", code |-> -32000] }

\* Rows of a discovery result: the keys the row has and their values.  Flags
\* is the sequence of hexadecimal digits of the "Flags" string.
Row(ks, fl, hw, re, m) ==
  [keys |-> ks, Flags |-> fl, HW |-> hw, reachable |-> re, mac |-> m]

Rows ==
  { Row({"Flags", "HW address"}, <<2>>, "aa:bb", FALSE, ""),
    Row({"Flags", "HW address"}, <<4>>, "cc:dd", FALSE, ""),
    Row({"reachable", "mac"}, <<>>, "", TRUE, "11:22"),
    Row({"reachable", "mac"}, <<>>, "", FALSE, "33:44"),
    Row({}, <<>>, "", FALSE, "") }

RowLists == UNION { [1..n -> Rows] : n \in 0..MaxRows }

Tokens == {"tokA", "tokB"}

HttpStatuses == {200, 401, 403, 500}

Reply(st, res, err) == [status |-> st, result |-> res, error |-> err]

\* What the router may answer to a login request.
LoginReplies ==
  { Reply(st, res, err) :
      st \in HttpStatuses,
      res \in {AbsentVal, NoneVal} \cup { StrVal(t) : t \in Tokens },
      err \in ErrorVals }

\* What the router may answer to a discovery request.
DiscoveryReplies ==
  { Reply(st, NoneVal, [kind |-> "null", code |-> 0]) : st \in HttpStatuses \ {200} }
  \cup { Reply(200, res, err) :
           res \in {AbsentVal, NoneVal} \cup { ListVal(rs) : rs \in RowLists },
           err \in ErrorVals }

NoReply == Reply(0, AbsentVal, [kind |-> "absent", code |-> 0])

----------------------------------------------------------------------------
\* Outcome of a call: the exception raised ("none" if it returned) and the
\* value returned.

Return(v) == [raised |-> "none", ret |-> v]

Raise(e) == [raised |-> e, ret |-> NoneVal]

\* call_json_rpc with the 401 and 403 branches (lines 148-154) exchanged.
call_json_rpc_swapped(res) ==
  IF res.status = 200 THEN
    IF res.result.kind = "absent" THEN Raise("LuciRpcUnknownError")
    ELSE IF res.result.kind # "null" THEN Return(res.result)
    ELSE IF res.error.kind = "absent" THEN Raise("LuciRpcUnknownError")
    ELSE IF res.error.kind # "null" THEN
      IF res.error.code = MethodNotFoundCode
      THEN Raise("LuciRpcMethodNotFoundError")
      ELSE Return(NoneVal)
    ELSE Raise("InvalidLuciLoginError")
  ELSE IF res.status = 401 THEN Raise("InvalidLuciTokenError")
  ELSE IF res.status = 403 THEN Raise("InvalidLuciLoginError")
  ELSE Raise("LuciRpcUnknownError")

\* _call_json_rpc, lines 120-157, applied to the HTTP response res.
\* result['result'] and result['error'] raise KeyError on a missing key, and
\* the KeyError handler turns that into LuciRpcUnknownError.  When result is
\* null and the error code is not -32601 no branch raises or returns, so the
\* function falls off its end and returns None.
call_json_rpc(res) ==
  IF res.status = 200 THEN
    IF res.result.kind = "absent" THEN Raise("LuciRpcUnknownError")
    ELSE IF res.result.kind # "null" THEN Return(res.result)
    ELSE IF res.error.kind = "absent" THEN Raise("LuciRpcUnknownError")
    ELSE IF res.error.kind # "null" THEN
      IF res.error.code = MethodNotFoundCode
      THEN Raise("LuciRpcMethodNotFoundError")
      ELSE Return(NoneVal)
    ELSE Raise("InvalidLuciLoginError")
  ELSE IF res.status = 401 THEN Raise("InvalidLuciLoginError")
  ELSE IF res.status = 403 THEN Raise("InvalidLuciTokenError")
  ELSE Raise("LuciRpcUnknownError")

\* The record of one request made through _call_json_rpc: where it went,
\* the auth query parameter ("absent": no params keyword was passed), the
\* response and the outcome.
CallRecord(url, method, auth, res) ==
  [url |-> url, method |-> method, auth |-> auth, res |-> res,
   out |-> call_json_rpc(res)]

\* _get_token, lines 41-45: one login call on the auth endpoint, with the
\* credentials as positional parameters and no keyword arguments.
get_token(res) == CallRecord("auth", "login", AbsentVal, res)

----------------------------------------------------------------------------
\* The instance

\* No instance: a record with no attributes.
NoObject == [a \in {} |-> NoneVal]

\* __init__, lines 30-34: the attributes assigned before the login.
NewObject ==
  [host_api_url |-> StrVal("host"), username |-> StrVal("user"),
   password |-> StrVal("pw"), session |-> StrVal("session"),
   token |-> NoneVal]

Bound(obj, name) == name \in DOMAIN obj

\* Names bound at module level: the imports, log and the class (lines 10-21).
ModuleNames ==
  { "requests", "json", "logging", "OpenWrtConstants",
    "InvalidLuciTokenError", "LuciRpcMethodNotFoundError",
    "InvalidLuciLoginError", "LuciRpcUnknownError", "log", "OpenWrtLuciRPC" }

Init ==
  /\ client = FALSE
  /\ self = NoObject
  /\ op = "none"
  /\ offered = NoReply
  /\ calls = <<>>
  /\ raised = "none"
  /\ returned = "nothing"

\* OpenWrtLuciRPC(host_url, username, password), lines 23-35.  The caller
\* gets the instance only if __init__ returns; if the login raises, the
\* half-built instance (token None) is dropped with the exception.
Construct ==
  \E res \in LoginReplies :
    LET c == get_token(res) IN
    /\ ~client
    /\ op' = "Construct"
    /\ offered' = res
    /\ calls' = <<c>>
    /\ raised' = c.out.raised
    /\ returned' = "nothing"
    /\ IF c.out.raised = "none"
       THEN /\ client' = TRUE
            /\ self' = [NewObject EXCEPT !.token = c.out.ret]
       ELSE /\ client' = FALSE
            /\ self' = NoObject

\* _refresh_token, lines 37-39: the assignment happens only if _get_token
\* returns.
RefreshToken ==
  \E res \in LoginReplies :
    LET c == get_token(res) IN
    /\ client
    /\ op' = "RefreshToken"
    /\ offered' = res
    /\ calls' = <<c>>
    /\ raised' = c.out.raised
    /\ returned' = IF c.out.raised = "none" THEN "None" ELSE "nothing"
    /\ self' = IF c.out.raised = "none"
               THEN [self EXCEPT !.token = c.out.ret]
               ELSE self
    /\ UNCHANGED client

\* The first name lookup of get_all_connected_devices that fails, lines
\* 51-72.  Line 51 reads self.origin outside the try block; line 55 reads
\* self.use_ip_neighbors_table; both branches of line 55 then look up the
\* module-level name _req_json_rpc (lines 58 and 70).  Neither except clause
\* (lines 61, 73, 79) matches AttributeError or NameError.
FirstFailedLookup(obj) ==
  IF ~Bound(obj, "origin") THEN "AttributeError"
  ELSE IF ~Bound(obj, "use_ip_neighbors_table") THEN "AttributeError"
  ELSE IF "_req_json_rpc" \notin ModuleNames THEN "NameError"
  ELSE "none"

\* get_all_connected_devices with a token refresh issued ahead of line 51: a
\* login request goes out on every query, whatever the discovery outcome.
GetAllConnectedDevices_relogin ==
  \E res \in DiscoveryReplies, lres \in LoginReplies :
    /\ client
    /\ FirstFailedLookup(self) # "none"
    /\ op' = "GetAllConnectedDevices"
    /\ offered' = res
    /\ calls' = <<get_token(lres)>>
    /\ raised' = FirstFailedLookup(self)
    /\ returned' = "nothing"
    /\ UNCHANGED <<client, self>>

\* get_all_connected_devices, lines 47-108, called while the router would
\* answer the discovery request with res.  No request is sent and no
\* attribute is assigned before the failing lookup.
GetAllConnectedDevices ==
  \E res \in DiscoveryReplies :
    /\ client
    /\ FirstFailedLookup(self) # "none"
    /\ op' = "GetAllConnectedDevices"
    /\ offered' = res
    /\ calls' = <<>>
    /\ raised' = FirstFailedLookup(self)
    /\ returned' = "nothing"
    /\ UNCHANGED <<client, self>>

Next == Construct \/ RefreshToken \/ GetAllConnectedDevices

Spec == Init /\ [][Next]_vars

----------------------------------------------------------------------------
\* The row loop of get_all_connected_devices, lines 85-104

\* int(s, 16), line 93, on a sequence of hexadecimal digits.
HexInt(ds) ==
  LET f[i \in 0..Len(ds)] == IF i = 0 THEN 0 ELSE 16 * f[i - 1] + ds[i]
  IN f[Len(ds)]

\* Lines 88-104: does the row append a MAC to last_results?
RowSelected(r) ==
  IF "Flags" \in r.keys THEN (HexInt(r.Flags) \div 2) % 2 = 1
  ELSE IF "reachable" \in r.keys /\ "mac" \in r.keys THEN r.reachable
  ELSE FALSE

\* Lines 94 and 104: the MAC a selected row appends.
RowMac(r) == IF "Flags" \in r.keys THEN r.HW ELSE r.mac

\* The MACs the loop of lines 85-104 appends for the rows, in row order.
SelectedMacs(rows) ==
  LET sel == SelectSeq(rows, RowSelected)
  IN [i \in 1..Len(sel) |-> RowMac(sel[i])]

\* The discovery mode held in self.use_ip_neighbors_table (lines 55, 65, 77).
DiscoveryMode(obj) ==
  IF ~Bound(obj, "use_ip_neighbors_table") THEN "unbound"
  ELSE IF obj.use_ip_neighbors_table THEN "UseNeighborsTable"
  ELSE "UseArpTable"

----------------------------------------------------------------------------
\* Properties

Modes == {"UseNeighborsTable", "UseArpTable"}

OtherMode(m) == IF m = "UseNeighborsTable" THEN "UseArpTable" ELSE "UseNeighborsTable"

\* The error the router's reply to the discovery request amounts to.
ReplyError(res) == call_json_rpc(res).raised

\* The last operation was a device query.
Queried == op = "GetAllConnectedDevices"

\* C1: when the router answers the discovery request with "method not found"
\* (error code -32601), get_all_connected_devices returns False without
\* raising and the discovery mode after the call is the other one of the two
\* modes.
C1_MethodNotFoundToggles ==
  [][ (op' = "GetAllConnectedDevices"
       /\ ReplyError(offered') = "LuciRpcMethodNotFoundError")
      => /\ raised' = "none"
         /\ returned' = "False"
         /\ DiscoveryMode(self) \in Modes
         /\ DiscoveryMode(self') = OtherMode(DiscoveryMode(self)) ]_vars

\* C2: when the router answers the discovery request with HTTP 403, the call
\* sends a login request, stores the token that login returned, and returns
\* False without raising.
C2_ForbiddenRefreshes ==
  (Queried /\ offered.status = 403)
  => /\ raised = "none"
     /\ returned = "False"
     /\ \E i \in DOMAIN calls :
          /\ calls[i].method = "login"
          /\ calls[i].out.raised = "none"
          /\ self.token = calls[i].out.ret

\* The login reply carries a token: HTTP 200 with a non-null result.
LoginSucceeds(res) == res.status = 200 /\ res.result.kind \notin {"absent", "null"}

\* C3: when the login of the constructor does not succeed, the constructor
\* raises (InvalidLuciLoginError for HTTP 401), the caller holds no client
\* and no token is stored.
C3_FailedLoginNoClient ==
  (op = "Construct" /\ ~LoginSucceeds(offered))
  => /\ raised # "none"
     /\ (offered.status = 401 => raised = "InvalidLuciLoginError")
     /\ ~client
     /\ self = NoObject

\* The discovery reply is a successful one with a list of rows.
ListReply(res) == res.status = 200 /\ res.result.kind = "list"

\* C4: a successful discovery reply with an empty list, or with at least one
\* selected row, makes the query return True without raising, with a device
\* list that is empty in the first case and non-empty in the second.
C4_EmptyListIsSuccess ==
  (Queried /\ ListReply(offered)
     /\ (offered.result.rows = <<>>
         \/ \E i \in DOMAIN offered.result.rows : RowSelected(offered.result.rows[i])))
  => /\ raised = "none"
     /\ returned = "True"
     /\ Bound(self, "last_results")
     /\ (self.last_results = <<>>) = (offered.result.rows = <<>>)

\* C5: the query returns True whenever the discovery call returned a
\* non-empty list, whether or not a row is selected, and False when the call
\* returned an empty list or None.
C5_SuccessIffNonEmptyResult ==
  (Queried /\ call_json_rpc(offered).raised = "none")
  => /\ raised = "none"
     /\ returned = IF call_json_rpc(offered).ret.kind = "list"
                      /\ call_json_rpc(offered).ret.rows # <<>>
                   THEN "True" ELSE "False"

\* C6: after a query that got a non-empty list, the device list is exactly
\* the MACs selected from that reply's rows, in row order.
C6_DevicesRebuilt ==
  (Queried /\ ListReply(offered) /\ offered.result.rows # <<>>)
  => /\ raised = "none"
     /\ Bound(self, "last_results")
     /\ self.last_results = SelectedMacs(offered.result.rows)

\* C7: every call of _call_json_rpc either returns a non-null value or raises
\* one of the four RPC errors.
C7_CallHasOutcome ==
  \A i \in DOMAIN calls :
    \/ calls[i].out.raised = "none" /\ calls[i].out.ret.kind \notin {"null", "absent"}
    \/ calls[i].out.raised \in
         { "InvalidLuciLoginError", "InvalidLuciTokenError",
           "LuciRpcMethodNotFoundError", "LuciRpcUnknownError" }

\* C8: a response whose HTTP status is not 200 is classified by the status
\* alone: 401 raises InvalidLuciLoginError, 403 raises InvalidLuciTokenError,
\* any other status raises LuciRpcUnknownError, whatever the body.
C8_Non200ByStatus ==
  \A i \in DOMAIN calls :
    calls[i].res.status # 200
    => calls[i].out =
         Raise(IF calls[i].res.status = 401 THEN "InvalidLuciLoginError"
               ELSE IF calls[i].res.status = 403 THEN "InvalidLuciTokenError"
               ELSE "LuciRpcUnknownError")

\* C8 witness: a token refresh answered with HTTP 403 and a body that holds a
\* token raised InvalidLuciTokenError.
C8_Witness ==
  /\ op = "RefreshToken"
  /\ offered.status = 403
  /\ offered.result.kind = "str"
  /\ raised = "InvalidLuciTokenError"

\* C9: an HTTP 200 response is classified by the table: a non-null result is
\* returned; a null result with error code -32601 raises
\* LuciRpcMethodNotFoundError; a null result with a null or missing error
\* raises InvalidLuciLoginError; neither key raises LuciRpcUnknownError.
C9_OkTable ==
  \A i \in DOMAIN calls :
    LET res == calls[i].res
        out == calls[i].out
    IN res.status = 200
       => /\ res.result.kind \notin {"absent", "null"} => out = Return(res.result)
          /\ (res.result.kind = "null" /\ res.error.kind = "obj"
              /\ res.error.code = MethodNotFoundCode)
             => out = Raise("LuciRpcMethodNotFoundError")
          /\ (res.result.kind = "null" /\ res.error.kind \in {"null", "absent"})
             => out = Raise("InvalidLuciLoginError")
          /\ (res.result.kind = "absent" /\ res.error.kind = "absent")
             => out = Raise("LuciRpcUnknownError")

\* C10: when the router's discovery reply amounts to LuciRpcUnknownError or
\* InvalidLuciLoginError, the query raises that error, sends no login and
\* leaves the instance (mode and token) as it was.
C10_HardErrorsSurface ==
  [][ (op' = "GetAllConnectedDevices"
       /\ ReplyError(offered') \in {"LuciRpcUnknownError", "InvalidLuciLoginError"})
      => /\ raised' = ReplyError(offered')
         /\ \A i \in DOMAIN calls' : calls'[i].method # "login"
         /\ self' = self ]_vars

\* The MACs held in the instance's device list.
DeviceSet(obj) == { obj.last_results[i] : i \in DOMAIN obj.last_results }

\* C11: after a query answered with a list of rows, the device set is exactly
\* the MACs of the rows that contribute: a row with "Flags" contributes its
\* "HW address" iff bit 0x2 of the hexadecimal Flags is set, a row without
\* "Flags" that has "reachable" and "mac" contributes its mac iff reachable
\* is true, and every other row is skipped without an error.
C11_RowFilter ==
  (Queried /\ ListReply(offered))
  => /\ raised = "none"
     /\ Bound(self, "last_results")
     /\ DeviceSet(self) =
          { RowMac(offered.result.rows[i]) :
              i \in { j \in DOMAIN offered.result.rows :
                        RowSelected(offered.result.rows[j]) } }

\* C12: once the client is constructed the discovery mode is one of the two
\* modes, and every discovery request of a query goes to the endpoint and
\* method of the mode: ip/neighbors in neighbors mode, sys/net.arptable in
\* ARP mode.
C12_ModeMatchesEndpoint ==
  client
  => /\ DiscoveryMode(self) \in Modes
     /\ \A i \in DOMAIN calls :
          calls[i].method # "login"
          => IF DiscoveryMode(self) = "UseNeighborsTable"
             THEN calls[i].url = "ip" /\ calls[i].method = "neighbors"
             ELSE calls[i].url = "sys" /\ calls[i].method = "net.arptable"

\* C13: every discovery request carries the token stored when the query was
\* called as its auth parameter, the login request carries no auth
\* parameter, and the first query after a successful token refresh sends a
\* discovery request that carries the refreshed token.
C13_RequestsCarryToken ==
  [][ /\ \A i \in DOMAIN calls' :
           IF calls'[i].method = "login"
           THEN calls'[i].auth = AbsentVal
           ELSE calls'[i].auth = self.token
      /\ (op = "RefreshToken" /\ raised = "none" /\ LoginSucceeds(offered)
          /\ op' = "GetAllConnectedDevices")
         => \E i \in DOMAIN calls' :
              calls'[i].method # "login" /\ calls'[i].auth = self.token ]_vars

\* The reply of a router to the method it supports: a non-empty list of rows.
RowsReply(res) == ListReply(res) /\ res.result.rows # <<>>

\* The replies of a router that supports one discovery method and accepts
\* the token: rows for the supported method, "method not found" for the other.
SingleMethodReply(res) ==
  RowsReply(res) \/ ReplyError(res) = "LuciRpcMethodNotFoundError"

\* C14: a poll against a router that supports exactly one method and accepts
\* the token never raises: it returns False on the "method not found" reply
\* and True on the rows of the supported method, so a caller that keeps
\* polling gets a successful query once the mode has flipped; and a poll
\* that follows a successful one leaves the mode as it is.
C14_SelfCorrects ==
  [][ (op' = "GetAllConnectedDevices" /\ SingleMethodReply(offered'))
      => /\ raised' = "none"
         /\ returned' = IF RowsReply(offered') THEN "True" ELSE "False"
         /\ (Queried /\ returned = "True" /\ RowsReply(offered'))
            => DiscoveryMode(self') = DiscoveryMode(self) ]_vars

\* The discovery requests and the login requests of the last operation.
DiscoveryCalls == { i \in DOMAIN calls : calls[i].method # "login" }

LoginCalls == { i \in DOMAIN calls : calls[i].method = "login" }

C16_TokenNeverNull ==
  client => self.token.kind \notin {"null", "absent"}

\* C17: a token refresh whose login does not succeed raises and leaves the
\* stored token as it was; the token of a client changes only on a login
\* that returned a result.
C17_FailedRefreshKeepsToken ==
  [][ /\ (client /\ op' = "RefreshToken" /\ ~LoginSucceeds(offered'))
         => raised' # "none" /\ self'.token = self.token
      /\ (client /\ client' /\ self'.token # self.token)
         => LoginSucceeds(offered') ]_vars

\* The attributes of the instance other than a are the same after the step.
OnlyChanges(a) ==
  /\ DOMAIN self' = DOMAIN self
  /\ \A b \in DOMAIN self \ {a} : self'[b] = self[b]

\* C18: a query answered "method not found" recovers (returns without
\* raising), changes no attribute but the discovery mode and sends no login;
\* a query answered HTTP 403 recovers and changes no attribute but the
\* token; a query answered with rows returns and changes neither.
C18_RecoveryPathsDisjoint ==
  [][ op' = "GetAllConnectedDevices"
      => /\ ReplyError(offered') = "LuciRpcMethodNotFoundError"
            => /\ raised' = "none"
               /\ OnlyChanges("use_ip_neighbors_table")
               /\ \A i \in DOMAIN calls' : calls'[i].method # "login"
         /\ offered'.status = 403
            => raised' = "none" /\ OnlyChanges("token")
         /\ RowsReply(offered')
            => raised' = "none" /\ self' = self ]_vars

====
